---- MODULE Spec2Model ----
(***************************************************************************)
(* The per-uid / per-task storage I/O monitor of storaged                  *)
(* (src/storaged/storaged_uid_monitor.cpp): the delta engine, the interval *)
(* accumulator, the bucketed record store with its retention and size-cap  *)
(* eviction, the dump query, and the um_lock semaphore around them.        *)
(*                                                                         *)
(* Scaling.  Cumulative counters are uint64_t and a delta is the int64_t   *)
(* of their difference; the model keeps that arithmetic with a word of     *)
(* WordBits bits.  MAX_UID_RECORDS_SIZE (1000 * 48 in the source) is       *)
(* divided by RecordScale so that the cap is reached.  Time is in          *)
(* seconds with the source's 5-day retention window; the clock moves in    *)
(* steps of one window.  Only read_bytes and write_bytes of a row are      *)
(* kept: rchar, wchar and fsync are parsed but never read by the monitor.  *)
(* The cells of io_usage are natural numbers: their declaration is in      *)
(* storaged_uid_monitor.h, which is not among the sources, and the sums    *)
(* the model reaches are far from any word size.                           *)
(***************************************************************************)
EXTENDS Integers, Sequences, FiniteSets, TLC

(***************************************************************************)
(* Bounds of the model                                                     *)
(***************************************************************************)
\* width of a counter word (64 in the source)
WordBits == 4

\* uids the raw statistics can mention: 1 .. NumUids
NumUids == 3

\* the clock takes the values 0, TimeStep, ..., MaxTicks * TimeStep
MaxTicks == 2

\* the cap of the record store is the source's divided by RecordScale
RecordScale == 24000

\* rows of a file of the parse specification
MaxRows == 3

(***************************************************************************)
(* Enumerations and constants                                              *)
(***************************************************************************)
READ == "READ"

WRITE == "WRITE"

FOREGROUND == "FOREGROUND"

BACKGROUND == "BACKGROUND"

CHARGER_OFF == "CHARGER_OFF"

CHARGER_ON == "CHARGER_ON"

IO_TYPES == {READ, WRITE}

UID_STATS == {FOREGROUND, BACKGROUND}

CHARGER_STATS == {CHARGER_OFF, CHARGER_ON}

\* static const int MAX_UID_RECORDS_SIZE = 1000 * 48, divided by RecordScale
MAX_UID_RECORDS_SIZE == (1000 * 48) \div RecordScale

DAY_TO_SEC == 86400

HOUR_TO_SEC == 3600

\* the clock moves in steps of the retention window
TimeStep == 5 * DAY_TO_SEC

\* calls that sample the raw statistics in one behaviour: one more than it
\* takes to fill the store with one-record buckets
MaxSamples == MAX_UID_RECORDS_SIZE + 1

Times == {k * TimeStep : k \in 0..MaxTicks}

Word == 2 ^ WordBits

Uids == 1..NumUids

(***************************************************************************)
(* Finite maps (std::map / std::unordered_map) as functions                *)
(***************************************************************************)
EmptyMap == [x \in {} |-> x]

Put(m, k, v) == [x \in (DOMAIN m) \cup {k} |-> IF x = k THEN v ELSE m[x]]

Get(m, k, default) == IF k \in DOMAIN m THEN m[k] ELSE default

Restrict(m, keys) == [x \in keys |-> m[x]]

(***************************************************************************)
(* io_usage: bytes[IO_TYPES][UID_STATS][CHARGER_STATS]                     *)
(***************************************************************************)
Cells == IO_TYPES \X UID_STATS \X CHARGER_STATS

ZeroUsage == [c \in Cells |-> 0]

is_zero(usage) ==
    \A i \in IO_TYPES : \A j \in UID_STATS : \A k \in CHARGER_STATS :
        usage[<<i, j, k>>] = 0

\* the eight-term sum dump() compares with the threshold
SumUsage(usage) ==
    usage[<<READ, FOREGROUND, CHARGER_ON>>] +
    usage[<<READ, FOREGROUND, CHARGER_OFF>>] +
    usage[<<READ, BACKGROUND, CHARGER_ON>>] +
    usage[<<READ, BACKGROUND, CHARGER_OFF>>] +
    usage[<<WRITE, FOREGROUND, CHARGER_ON>>] +
    usage[<<WRITE, FOREGROUND, CHARGER_OFF>>] +
    usage[<<WRITE, BACKGROUND, CHARGER_ON>>] +
    usage[<<WRITE, BACKGROUND, CHARGER_OFF>>]

(***************************************************************************)
(* Cumulative counters of a row, uid_info and task_info                    *)
(***************************************************************************)
Io(fr, fw, br, bw) ==
    [s \in UID_STATS |->
        IF s = FOREGROUND THEN [read_bytes |-> fr, write_bytes |-> fw]
                          ELSE [read_bytes |-> br, write_bytes |-> bw]]

ZeroIo == Io(0, 0, 0, 0)

DefaultTaskInfo == [pid |-> 0, comm |-> "", io |-> ZeroIo]

\* a value-initialised uid_info, as operator[] of the maps creates it
DefaultUidInfo == [uid |-> 0, name |-> "", io |-> ZeroIo, tasks |-> EmptyMap]

Digit == <<"0", "1", "2", "3", "4", "5", "6", "7", "8", "9">>

RECURSIVE to_string(_)
to_string(n) ==
    IF n < 10 THEN Digit[n + 1]
              ELSE to_string(n \div 10) \o Digit[(n % 10) + 1]

(***************************************************************************)
(* The delta of one counter: int64_t d = cur - prev; (d < 0) ? 0 : d       *)
(***************************************************************************)
\* the signed value of a word (uint64_t converted to int64_t)
ToSigned(x) == IF x >= Word \div 2 THEN x - Word ELSE x

SignedDelta(cur, prev) == ToSigned((cur - prev) % Word)

ClampedDelta(cur, prev) ==
    IF SignedDelta(cur, prev) < 0 THEN 0 ELSE SignedDelta(cur, prev)

(***************************************************************************)
(* The raw statistics file: a failed read, or a sequence of rows.  A uid   *)
(* row carries nparsed, the number of its 11 fields that ParseUint accepts *)
(* before the first failure (11: the row parses; 0 also stands for a row   *)
(* with fewer than 11 fields).  Field 0 is the uid, 3 and 4 the foreground *)
(* read_bytes and write_bytes, 7 and 8 the background ones.                *)
(***************************************************************************)
UidRow(uid, io) == [kind |-> "uid", nparsed |-> 11, uid |-> uid, io |-> io]

BadUidRow(n, uid, io) == [kind |-> "uid", nparsed |-> n, uid |-> uid, io |-> io]

TaskRow(ok, pid, comm, io) ==
    [kind |-> "task", ok |-> ok, pid |-> pid, comm |-> comm, io |-> io]

ReadFailed == [ok |-> FALSE, rows |-> <<>>]

RawFile(rows) == [ok |-> TRUE, rows |-> rows]

\* uid_info::parse_uid_io_stats: fields are stored into *this one by one
parse_uid_io_stats(u, row) ==
    LET n == row.nparsed
        fg == [read_bytes  |-> IF n > 3 THEN row.io[FOREGROUND].read_bytes
                                        ELSE u.io[FOREGROUND].read_bytes,
               write_bytes |-> IF n > 4 THEN row.io[FOREGROUND].write_bytes
                                        ELSE u.io[FOREGROUND].write_bytes]
        bg == [read_bytes  |-> IF n > 7 THEN row.io[BACKGROUND].read_bytes
                                        ELSE u.io[BACKGROUND].read_bytes,
               write_bytes |-> IF n > 8 THEN row.io[BACKGROUND].write_bytes
                                        ELSE u.io[BACKGROUND].write_bytes]
    IN  [ok |-> n = 11,
         u  |-> [u EXCEPT !.uid = IF n > 0 THEN row.uid ELSE @,
                          !.io  = [s \in UID_STATS |->
                                      IF s = FOREGROUND THEN fg ELSE bg]]]

\* task_info::parse_task_io_stats on a fresh task_info
parse_task_io_stats(row) ==
    [ok |-> row.ok,
     t  |-> IF row.ok THEN [pid |-> row.pid, comm |-> row.comm, io |-> row.io]
                      ELSE DefaultTaskInfo]

\* one iteration of the row loop of get_uid_io_stats_locked;
\* ps = [stats, u, uids, refresh]
ParseRow(ps, row, last) ==
    IF row.kind = "uid"
    THEN LET p == parse_uid_io_stats(ps.u, row)
             known == p.u.uid \in DOMAIN last
             name == IF known THEN last[p.u.uid].name ELSE to_string(p.u.uid)
         IN  IF ~p.ok
             THEN [ps EXCEPT !.u = p.u]
             ELSE [stats   |-> Put(ps.stats, p.u.uid, [p.u EXCEPT !.name = name]),
                   u       |-> p.u,
                   uids    |-> Append(ps.uids, p.u.uid),
                   refresh |-> ps.refresh \/ ~known]
    ELSE LET p == parse_task_io_stats(row)
             e == Get(ps.stats, ps.u.uid, DefaultUidInfo)
         IN  IF ~p.ok
             THEN ps
             ELSE [ps EXCEPT !.stats =
                      Put(ps.stats, ps.u.uid,
                          [e EXCEPT !.tasks = Put(e.tasks, p.t.pid, p.t)])]

RECURSIVE ParseRows(_, _, _, _)
ParseRows(ps, rows, i, last) ==
    IF i > Len(rows) THEN ps
    ELSE ParseRows(ParseRow(ps, rows[i], last), rows, i + 1, last)

\* get_uid_names: resp is NamesFailed, or the names of getNamesForUids as a
\* function of the uid ("" for a uid it does not resolve)
NamesFailed == [ok |-> FALSE, names |-> EmptyMap]

NamesOk(names) == [ok |-> TRUE, names |-> names]

get_uid_names(ps, resp) ==
    IF ~resp.ok THEN ps
    ELSE [ps EXCEPT
            !.stats = [k \in DOMAIN ps.stats |->
                IF (\E i \in 1..Len(ps.uids) : ps.uids[i] = k) /\ resp.names[k] # ""
                THEN [ps.stats[k] EXCEPT !.name = resp.names[k]]
                ELSE ps.stats[k]],
            !.refresh = FALSE]

\* get_uid_io_stats_locked that calls get_uid_names whenever a uid row parsed
get_uid_io_stats_locked_AlwaysResolves(raw, u0, resp, last, refresh) ==
    IF ~raw.ok THEN [stats |-> EmptyMap, refresh |-> refresh,
                     uids |-> <<>>, lookup |-> FALSE]
    ELSE LET ps == ParseRows([stats |-> EmptyMap, u |-> u0, uids |-> <<>>,
                              refresh |-> refresh], raw.rows, 1, last)
             rs == IF ps.uids # <<>>
                   THEN get_uid_names(ps, resp) ELSE ps
         IN  [stats |-> rs.stats, refresh |-> rs.refresh,
              uids |-> ps.uids, lookup |-> ps.uids # <<>>]

\* get_uid_io_stats_locked: [stats, refresh]; u0 is the local uid_info u
\* before any row is parsed into it.  The result also tells what the call
\* did: uids, the vector of the uids of the rows that parsed; lookup,
\* whether get_uid_names was called with it
get_uid_io_stats_locked(raw, u0, resp, last, refresh) ==
    IF ~raw.ok THEN [stats |-> EmptyMap, refresh |-> refresh,
                     uids |-> <<>>, lookup |-> FALSE]
    ELSE LET ps == ParseRows([stats |-> EmptyMap, u |-> u0, uids |-> <<>>,
                              refresh |-> refresh], raw.rows, 1, last)
             rs == IF ps.uids # <<>> /\ ps.refresh
                   THEN get_uid_names(ps, resp) ELSE ps
         IN  [stats |-> rs.stats, refresh |-> rs.refresh,
              uids |-> ps.uids, lookup |-> ps.uids # <<>> /\ ps.refresh]

\* what is recorded of a call of get_uid_io_stats_locked that returned r
SampleNote(r) ==
    [empty |-> DOMAIN r.stats = {}, lookup |-> r.lookup, uids |-> r.uids]

(***************************************************************************)
(* update_curr_io_stats_locked: the clamped deltas of a fresh snapshot     *)
(* against last_uid_io_stats, added to curr_io_stats under charger_stat    *)
(***************************************************************************)
Counter(io, c) ==
    IF c[1] = READ THEN io[c[2]].read_bytes ELSE io[c[2]].write_bytes

\* usage.bytes[i][j][charger] += (delta < 0) ? 0 : delta, for the 4 counters
AddDeltas(usage, io, prev_io, charger) ==
    [c \in Cells |->
        IF c[3] = charger
        THEN usage[c] + ClampedDelta(Counter(io, c), Counter(prev_io, c))
        ELSE usage[c]]

ZeroUidIoUsage == [uid_ios |-> ZeroUsage, task_ios |-> EmptyMap]

\* the loop over uid.tasks with task_ios keyed by the pid
RECURSIVE AddTasks_ByPid(_, _, _, _, _)
AddTasks_ByPid(task_ios, pids, tasks, prev_tasks, charger) ==
    IF pids = {} THEN task_ios
    ELSE LET pid  == CHOOSE p \in pids : TRUE
             task == tasks[pid]
             prev == Get(prev_tasks, pid, DefaultTaskInfo)
             old  == Get(task_ios, to_string(pid), ZeroUsage)
         IN  AddTasks_ByPid(Put(task_ios, to_string(pid),
                                AddDeltas(old, task.io, prev.io, charger)),
                            pids \ {pid}, tasks, prev_tasks, charger)

\* the loop over uid.tasks: task_ios[comm] += deltas against the previous
\* snapshot's task with the same pid
RECURSIVE AddTasks(_, _, _, _, _)
AddTasks(task_ios, pids, tasks, prev_tasks, charger) ==
    IF pids = {} THEN task_ios
    ELSE LET pid  == CHOOSE p \in pids : TRUE
             task == tasks[pid]
             prev == Get(prev_tasks, pid, DefaultTaskInfo)
             old  == Get(task_ios, task.comm, ZeroUsage)
         IN  AddTasks(Put(task_ios, task.comm,
                          AddDeltas(old, task.io, prev.io, charger)),
                      pids \ {pid}, tasks, prev_tasks, charger)

\* the loop over uid_io_stats
RECURSIVE AddUids(_, _, _, _, _)
AddUids(curr, keys, stats, last, charger) ==
    IF keys = {} THEN curr
    ELSE LET k     == CHOOSE x \in keys : TRUE
             uid   == stats[k]
             prev  == Get(last, uid.uid, DefaultUidInfo)
             usage == Get(curr, uid.name, ZeroUidIoUsage)
             new   == [uid_ios  |-> AddDeltas(usage.uid_ios, uid.io, prev.io, charger),
                       task_ios |-> AddTasks(usage.task_ios, DOMAIN uid.tasks,
                                             uid.tasks, prev.tasks, charger)]
         IN  AddUids(Put(curr, uid.name, new), keys \ {k}, stats, last, charger)

\* [last, curr, refresh] after the call, and the note of its sample
update_curr_io_stats_locked(raw, u0, resp, last, curr, refresh, charger) ==
    LET r == get_uid_io_stats_locked(raw, u0, resp, last, refresh)
    IN  IF DOMAIN r.stats = {}
        THEN [last |-> last, curr |-> curr, refresh |-> r.refresh,
              sample |-> SampleNote(r)]
        ELSE [last    |-> r.stats,
              curr    |-> AddUids(curr, DOMAIN r.stats, r.stats, last, charger),
              refresh |-> r.refresh,
              sample  |-> SampleNote(r)]

(***************************************************************************)
(* The record store: std::map<uint64_t, uid_records>                       *)
(***************************************************************************)
\* the elements of a non-empty finite set of integers, ascending
RECURSIVE SortedKeys(_)
SortedKeys(S) ==
    IF S = {} THEN <<>>
    ELSE LET m == CHOOSE x \in S : \A y \in S : x <= y
         IN  <<m>> \o SortedKeys(S \ {m})

RECURSIVE SumLens(_, _)
SumLens(records, keys) ==
    IF keys = {} THEN 0
    ELSE LET k == CHOOSE x \in keys : TRUE
         IN  Len(records[k].entries) + SumLens(records, keys \ {k})

records_size(curr_records) == SumLens(curr_records, DOMAIN curr_records)

\* PruneOld with the age test off by a factor: nothing in reach is old enough
PruneOld_LateWindow(recs, curr_ts) ==
    IF curr_ts > 10 * DAY_TO_SEC
    THEN Restrict(recs, {k \in DOMAIN recs : k >= curr_ts - 10 * DAY_TO_SEC})
    ELSE recs

\* "remove records more than 5 days old"
PruneOld(recs, curr_ts) ==
    IF curr_ts > 5 * DAY_TO_SEC
    THEN Restrict(recs, {k \in DOMAIN recs : k >= curr_ts - 5 * DAY_TO_SEC})
    ELSE recs

\* the names of curr_io_stats whose uid_ios is not zero
NonZeroNames(curr) == {n \in DOMAIN curr : ~is_zero(curr[n].uid_ios)}

\* the sequences without repetition that enumerate a finite set: the
\* iteration orders an unordered_map with these keys can have
RECURSIVE SeqOf(_)
SeqOf(S) ==
    IF S = {} THEN <<>>
    ELSE LET x == CHOOSE y \in S : TRUE IN <<x>> \o SeqOf(S \ {x})

Reverse(q) == [i \in 1..Len(q) |-> q[Len(q) + 1 - i]]

\* iteration orders of an unordered_map with the keys S: the order is
\* unspecified; two opposite orders stand for the possibilities
Orders(S) == {SeqOf(S), Reverse(SeqOf(S))}

\* NewRecord that copies task_ios whole, zero entries included
NewRecord_KeepsZeroTasks(name, usage) ==
    [name |-> name,
     ios  |-> [uid_ios  |-> usage.uid_ios,
               task_ios |-> usage.task_ios]]

\* the uid_record built for one entry of curr_io_stats
NewRecord(name, usage) ==
    [name |-> name,
     ios  |-> [uid_ios  |-> usage.uid_ios,
               task_ios |-> Restrict(usage.task_ios,
                               {c \in DOMAIN usage.task_ios :
                                   ~is_zero(usage.task_ios[c])})]]

\* new_records; order is the iteration order of the non-zero entries
NewRecords(curr, order, start) ==
    [start_ts |-> start,
     entries  |-> [i \in 1..Len(order) |-> NewRecord(order[i], curr[order[i]])]]

\* MakeRoom erasing the newest bucket (rbegin) instead of the oldest
RECURSIVE MakeRoom_Newest(_, _)
MakeRoom_Newest(recs, overflow) ==
    IF overflow > 0 /\ Cardinality(DOMAIN recs) > 0
    THEN LET del == CHOOSE k \in DOMAIN recs : \A j \in DOMAIN recs : k >= j
         IN  MakeRoom_Newest(Restrict(recs, (DOMAIN recs) \ {del}),
                             overflow - Len(recs[del].entries))
    ELSE recs

\* "make some room for new records": the while loop
RECURSIVE MakeRoom(_, _)
MakeRoom(recs, overflow) ==
    IF overflow > 0 /\ Cardinality(DOMAIN recs) > 0
    THEN LET del == CHOOSE k \in DOMAIN recs : \A j \in DOMAIN recs : k <= j
         IN  MakeRoom(Restrict(recs, (DOMAIN recs) \ {del}),
                      overflow - Len(recs[del].entries))
    ELSE recs

Overflow(recs, new_records) ==
    records_size(recs) + Len(new_records.entries) - MAX_UID_RECORDS_SIZE

\* StoreCandidate without the early return on an empty candidate
StoreCandidate_NoEmptyCheck(recs, new_records, curr_ts) ==
    Put(MakeRoom(recs, Overflow(recs, new_records)), curr_ts, new_records)

\* the store after the candidate is handled: dropped if empty, else
\* inserted under curr_ts after making room
StoreCandidate(recs, new_records, curr_ts) ==
    IF new_records.entries = <<>> THEN recs
    ELSE Put(MakeRoom(recs, Overflow(recs, new_records)), curr_ts, new_records)

\* add_records_locked that returns on an empty candidate before it resets
\* the start time
add_records_locked_ResetAfterCheck(recs, curr, start, curr_ts, order) ==
    [records  |-> StoreCandidate(PruneOld(recs, curr_ts),
                                 NewRecords(curr, order, start), curr_ts),
     curr     |-> EmptyMap,
     start_ts |-> IF NewRecords(curr, order, start).entries = <<>>
                  THEN start ELSE curr_ts]

\* add_records_locked: [records, curr, start_ts] after the call
add_records_locked(recs, curr, start, curr_ts, order) ==
    [records  |-> StoreCandidate(PruneOld(recs, curr_ts),
                                 NewRecords(curr, order, start), curr_ts),
     curr     |-> EmptyMap,
     start_ts |-> curr_ts]

(***************************************************************************)
(* dump: the filter over the store                                         *)
(***************************************************************************)
\* the values uint64_t first_ts can take.  time(NULL) - hours * HOUR_TO_SEC
\* is a double; converting a negative double to uint64_t is undefined: it
\* yields 0 where the conversion saturates and the value modulo the word
\* where it wraps (TsWord stands for 2^64).
TsWord == 2 ^ 30

FirstTs(t, hours) ==
    IF hours = 0 THEN {0}
    ELSE IF t - hours * HOUR_TO_SEC >= 0 THEN {t - hours * HOUR_TO_SEC}
    ELSE {0, TsWord + (t - hours * HOUR_TO_SEC)}

\* the threshold test with >= for >
Exceeds_OrEqual(rec, threshold) == SumUsage(rec.ios.uid_ios) >= threshold

Exceeds(rec, threshold) == SumUsage(rec.ios.uid_ios) > threshold

Filtered(bucket, threshold) ==
    [start_ts |-> bucket.start_ts,
     entries  |-> SelectSeq(bucket.entries, LAMBDA rec : Exceeds(rec, threshold))]

\* DumpRecords starting after first_ts (upper_bound for lower_bound)
DumpRecords_UpperBound(recs, first_ts, threshold) ==
    LET keep == {k \in DOMAIN recs :
                    k > first_ts /\ Filtered(recs[k], threshold).entries # <<>>}
    IN  [k \in keep |-> Filtered(recs[k], threshold)]

DumpRecords(recs, first_ts, threshold) ==
    LET keep == {k \in DOMAIN recs :
                    k >= first_ts /\ Filtered(recs[k], threshold).entries # <<>>}
    IN  [k \in keep |-> Filtered(recs[k], threshold)]

(***************************************************************************)
(* State                                                                   *)
(***************************************************************************)
VARIABLES
    last_uid_io_stats,  \* uid -> uid_info: the last cumulative snapshot
    curr_io_stats,      \* name -> uid_io_usage: the interval accumulator
    records,            \* timestamp -> uid_records: the record store
    start_ts,           \* start of the current interval
    charger_stat,       \* CHARGER_ON or CHARGER_OFF
    refresh_uid_names,  \* the file-scope flag
    um_lock,            \* value of the semaphore: 1 free, 0 taken
    now,                \* what time(NULL) returns
    nops,               \* calls that took a sample so far (SpecConc: calls started)
    done,               \* history: the last completed call and its stages
    th                  \* per thread: the call in progress (concurrent callers)

vars == <<last_uid_io_stats, curr_io_stats, records, start_ts, charger_stat,
          refresh_uid_names, um_lock, now, nops, done, th>>

monitor == <<last_uid_io_stats, curr_io_stats, records, start_ts, charger_stat,
             refresh_uid_names>>

(***************************************************************************)
(* Inputs                                                                  *)
(***************************************************************************)
\* the rows of uid u in the file at level g of its cumulative counters:
\* its summary row, then its task rows
RowGroup(u, g) ==
    IF g = 1 THEN <<UidRow(u, Io(u, 0, 0, 0))>>
    ELSE <<UidRow(u, Io(u + 1, 0, 0, u)), TaskRow(TRUE, u, "a", Io(1, 0, 0, u))>>

Levels == {1, 2}

\* the rows of a file that lists uids 1..k, all at level g
RECURSIVE RowSeq(_, _)
RowSeq(k, g) == IF k = 0 THEN <<>> ELSE RowSeq(k - 1, g) \o RowGroup(k, g)

\* a failed read; uid 1 at level 1; uids 1..k at level 2
RawFiles ==
    {ReadFailed} \cup
    {RawFile(RowSeq(p[1], p[2])) :
        p \in {q \in (1..NumUids) \X Levels : q[2] = 2 \/ q[1] = 1}}

\* the files of the delta specification: uid 1 and its task, the foreground
\* read_bytes of each ranging over the whole word; in every other file a
\* second task with the same command name
DeltaFiles ==
    {RawFile(<<UidRow(1, Io(c, 0, 0, 0)),
               TaskRow(TRUE, 1, "a", Io(Word - 1 - c, 0, 0, 0))>>
             \o IF c % 2 = 1 THEN <<TaskRow(TRUE, 2, "a", Io(c, 0, 0, 0))>>
                             ELSE <<>>) :
        c \in 0..(Word - 1)}

\* the rows a file of the parse specification can have at position i: a
\* uid row of uid 1 or 2; a uid row of uid 3 that is too short, or whose
\* sixth field is not a number; a task row of pid i, good or malformed
RowChoices(i) ==
    {UidRow(1, Io(1, 0, 0, 0)), UidRow(2, Io(2, 0, 0, 0)),
     BadUidRow(0, 3, Io(3, 0, 0, 0)), BadUidRow(5, 3, Io(3, 0, 0, 0)),
     TaskRow(TRUE, i, "a", Io(1, 0, 0, 0)), TaskRow(FALSE, i, "a", ZeroIo)}

\* the row sequences of length 1 .. n
RECURSIVE RowStreams(_)
RowStreams(n) ==
    IF n = 0 THEN {}
    ELSE LET shorter == RowStreams(n - 1)
             longest == IF n = 1 THEN {<<>>}
                        ELSE {q \in shorter : Len(q) = n - 1}
         IN  shorter \cup {Append(q, r) : q \in longest, r \in RowChoices(n)}

ParseFiles == {RawFile(q) : q \in RowStreams(MaxRows)}

\* the rows of a file of the conservation specification: uid 1 with the
\* foreground read_bytes c, and its task with counters that never move
CountRows(c) ==
    <<UidRow(1, Io(c, 0, 0, 0)), TaskRow(TRUE, 1, "a", Io(1, 0, 0, 0))>>

\* the file init reads in the conservation specification
FirstFile == RawFile(CountRows(1))

\* the foreground read_bytes of uid 1 in the snapshot last
CountIn(last) == Get(last, 1, DefaultUidInfo).io[FOREGROUND].read_bytes

\* the files a later sample can read when the counter never decreases: a
\* failed read, or uid 1 with a counter at or above the last snapshot's
MonotoneFiles ==
    {ReadFailed} \cup
    {RawFile(CountRows(c)) : c \in CountIn(last_uid_io_stats)..(Word - 1)}

\* the files of the dump specification: every uid at level 1; uid 1, and
\* uids 1 and 2, at level 2
DumpFiles ==
    {RawFile(RowSeq(NumUids, 1)), RawFile(RowSeq(1, 2)), RawFile(RowSeq(2, 2))}

PkgName(u) == "pkg" \o to_string(u)

\* the answers of the name service: a failure, or every uid resolved
NameResponses == {NamesFailed, NamesOk([u \in 0..NumUids |-> PkgName(u)])}

\* the indeterminate values of the local uid_info u
UninitUidInfos == {[DefaultUidInfo EXCEPT !.uid = x] : x \in 0..NumUids}

\* u is read before a uid row sets it only if the first row is no good uid row
ReadsUninit(raw) ==
    raw.ok /\ raw.rows # <<>> /\
    ~(raw.rows[1].kind = "uid" /\ raw.rows[1].nparsed = 11)

\* a name lookup happens for this file in this state
Resolves(raw, u0, last, refresh) ==
    LET r == ParseRows([stats |-> EmptyMap, u |-> u0, uids |-> <<>>,
                        refresh |-> refresh], raw.rows, 1, last)
    IN  raw.ok /\ r.uids # <<>> /\ r.refresh

\* the environment of one sample: the file, the value of u, the name
\* service's answer (where they are read at all)
Samples(files, last, refresh) ==
    UNION {UNION {{[raw |-> raw, u0 |-> u0, resp |-> resp] :
                     resp \in IF Resolves(raw, u0, last, refresh)
                              THEN NameResponses ELSE {NamesFailed}} :
                  u0 \in IF ReadsUninit(raw) THEN UninitUidInfos
                                             ELSE {DefaultUidInfo}} :
           raw \in files}

\* hours of dump: unbounded, or one retention window
DumpHours == {0, 120}

Thresholds == {0, 2}

(***************************************************************************)
(* Initial state: the monitor as constructed.  The constructor only        *)
(* initialises the lock: charger_stat has either value until init or       *)
(* set_charger_state writes it; start_ts is taken as zero.                 *)
(***************************************************************************)
NoCall == [op |-> "none"]

Init ==
    /\ last_uid_io_stats = EmptyMap
    /\ curr_io_stats = EmptyMap
    /\ records = EmptyMap
    /\ start_ts = 0
    /\ charger_stat \in CHARGER_STATS
    /\ refresh_uid_names = FALSE
    /\ um_lock = 1
    /\ now = 0
    /\ nops = 0
    /\ done = NoCall
    /\ th = EmptyMap

(***************************************************************************)
(* The operations, each as one step of a single caller.  files is the set  *)
(* of raw files the environment can present, budget the number of calls    *)
(* that may sample it.                                                     *)
(***************************************************************************)
\* the clock advances
Tick ==
    /\ \E t \in Times : t > now /\ now' = t
    /\ UNCHANGED <<monitor, um_lock, nops, done, th>>

Idle == um_lock = 1 /\ th = EmptyMap

\* update_curr_io_stats_locked on the monitor's state with the sample s
Update(s) ==
    update_curr_io_stats_locked(s.raw, s.u0, s.resp, last_uid_io_stats,
        curr_io_stats, refresh_uid_names, charger_stat)

\* add_records_locked(time(NULL)) on the accumulator acc, with its stages:
\* the store before, after the retention step, after making room
Flush(acc, order) ==
    LET new    == NewRecords(acc, order, start_ts)
        pruned == PruneOld(records, now)
    IN  [ts |-> now, before |-> records, acc |-> acc, pruned |-> pruned,
         candidate |-> new,
         evicted |-> IF new.entries = <<>> THEN pruned
                     ELSE MakeRoom(pruned, Overflow(pruned, new)),
         after |-> add_records_locked(records, acc, start_ts, now, order)]

FlushNote(fl) ==
    [ts |-> fl.ts, before |-> fl.before, acc |-> fl.acc, pruned |-> fl.pruned,
     candidate |-> fl.candidate, evicted |-> fl.evicted]

\* the body of report(): update_curr_io_stats_locked gave upd, then
\* add_records_locked(time(NULL)) gave fl
ReportBody(upd, fl) ==
    /\ last_uid_io_stats' = upd.last
    /\ refresh_uid_names' = upd.refresh
    /\ curr_io_stats' = fl.after.curr
    /\ records' = fl.after.records
    /\ start_ts' = fl.after.start_ts
    /\ nops' = nops + 1

Report(files, budget) ==
    /\ Idle
    /\ nops < budget
    /\ \E s \in Samples(files, last_uid_io_stats, refresh_uid_names) :
         \E upd \in {Update(s)} :
           \E order \in Orders(NonZeroNames(upd.curr)) :
             \E fl \in {Flush(upd.curr, order)} :
               /\ ReportBody(upd, fl)
               /\ done' = [op |-> "report", sample |-> upd.sample,
                           flush |-> FlushNote(fl)]
    /\ UNCHANGED <<charger_stat, um_lock, now, th>>

\* what set_charger_state notes of a call that went on to sample
ChargerNote(stat, changed, upd) ==
    [op |-> "set_charger_state", stat |-> stat, changed |-> changed,
     sample |-> upd.sample,
     before |-> [last |-> last_uid_io_stats, curr |-> curr_io_stats]]

\* set_charger_state without the early return on an unchanged state
SetChargerState_NoEarlyReturn(files, budget, stat) ==
    /\ Idle
    /\ nops < budget
    /\ \E s \in Samples(files, last_uid_io_stats, refresh_uid_names) :
         \E upd \in {Update(s)} :
           /\ last_uid_io_stats' = upd.last
           /\ curr_io_stats' = upd.curr
           /\ refresh_uid_names' = upd.refresh
           /\ done' = ChargerNote(stat, charger_stat # stat, upd)
    /\ charger_stat' = stat
    /\ nops' = nops + 1
    /\ UNCHANGED <<records, start_ts, um_lock, now, th>>

\* set_charger_state that switches charger_stat before the update
SetChargerState_SwitchFirst(files, budget, stat) ==
    /\ Idle
    /\ IF charger_stat = stat
       THEN /\ done' = [op |-> "set_charger_state", stat |-> stat, changed |-> FALSE]
            /\ UNCHANGED <<last_uid_io_stats, curr_io_stats, refresh_uid_names,
                           charger_stat, nops>>
       ELSE /\ nops < budget
            /\ \E s \in Samples(files, last_uid_io_stats, refresh_uid_names) :
                 \E upd \in {update_curr_io_stats_locked(s.raw, s.u0, s.resp,
                                 last_uid_io_stats, curr_io_stats,
                                 refresh_uid_names, stat)} :
                   /\ last_uid_io_stats' = upd.last
                   /\ curr_io_stats' = upd.curr
                   /\ refresh_uid_names' = upd.refresh
                   /\ done' = ChargerNote(stat, TRUE, upd)
            /\ charger_stat' = stat
            /\ nops' = nops + 1
    /\ UNCHANGED <<records, start_ts, um_lock, now, th>>

\* set_charger_state that closes the interval as report does
SetChargerState_Flushes(files, budget, stat) ==
    /\ Idle
    /\ IF charger_stat = stat
       THEN /\ done' = [op |-> "set_charger_state", stat |-> stat, changed |-> FALSE]
            /\ UNCHANGED <<last_uid_io_stats, curr_io_stats, refresh_uid_names,
                           charger_stat, nops, records, start_ts>>
       ELSE /\ nops < budget
            /\ \E s \in Samples(files, last_uid_io_stats, refresh_uid_names) :
                 \E upd \in {Update(s)} :
                   \E order \in Orders(NonZeroNames(upd.curr)) :
                     \E fl \in {Flush(upd.curr, order)} :
                       /\ ReportBody(upd, fl)
                       /\ done' = ChargerNote(stat, TRUE, upd)
            /\ charger_stat' = stat
    /\ UNCHANGED <<um_lock, now, th>>

SetChargerState(files, budget, stat) ==
    /\ Idle
    /\ IF charger_stat = stat
       THEN /\ done' = [op |-> "set_charger_state", stat |-> stat, changed |-> FALSE]
            /\ UNCHANGED <<last_uid_io_stats, curr_io_stats, refresh_uid_names,
                           charger_stat, nops>>
       ELSE /\ nops < budget
            /\ \E s \in Samples(files, last_uid_io_stats, refresh_uid_names) :
                 \E upd \in {Update(s)} :
                   /\ last_uid_io_stats' = upd.last
                   /\ curr_io_stats' = upd.curr
                   /\ refresh_uid_names' = upd.refresh
                   /\ done' = ChargerNote(stat, TRUE, upd)
            /\ charger_stat' = stat
            /\ nops' = nops + 1
    /\ UNCHANGED <<records, start_ts, um_lock, now, th>>

\* init(stat): the daemon calls it at most once, before the other operations
InitMonitor(files, budget, stat) ==
    /\ Idle
    /\ done = NoCall
    /\ nops < budget
    /\ charger_stat' = stat
    /\ start_ts' = now
    /\ \E s \in Samples(files, last_uid_io_stats, refresh_uid_names) :
         \E r \in {get_uid_io_stats_locked(s.raw, s.u0, s.resp,
                       last_uid_io_stats, refresh_uid_names)} :
           /\ last_uid_io_stats' = r.stats
           /\ refresh_uid_names' = r.refresh
           /\ done' = [op |-> "init", stat |-> stat, rows |-> s.raw.rows,
                       sample |-> SampleNote(r)]
    /\ nops' = nops + 1
    /\ UNCHANGED <<curr_io_stats, records, um_lock, now, th>>

\* what dump returns from the store recs
DumpNote(hours, threshold, force_report, f, recs) ==
    [op |-> "dump", hours |-> hours, threshold |-> threshold,
     force_report |-> force_report, first_ts |-> f,
     ret |-> DumpRecords(recs, f, threshold)]

\* dump that calls report() whatever force_report is
Dump_AlwaysReports(files, budget, hours, threshold, force_report, f) ==
    /\ Idle
    /\ f \in FirstTs(now, hours)
    /\ nops < budget
    /\ \E s \in Samples(files, last_uid_io_stats, refresh_uid_names) :
         \E upd \in {Update(s)} :
           \E order \in Orders(NonZeroNames(upd.curr)) :
             \E fl \in {Flush(upd.curr, order)} :
               /\ ReportBody(upd, fl)
               /\ done' = DumpNote(hours, threshold, force_report, f,
                                   fl.after.records)
    /\ UNCHANGED <<charger_stat, um_lock, now, th>>

\* dump(hours, threshold, force_report); f is the value first_ts takes
Dump(files, budget, hours, threshold, force_report, f) ==
    /\ Idle
    /\ f \in FirstTs(now, hours)
    /\ force_report => nops < budget
    /\ IF force_report
       THEN \E s \in Samples(files, last_uid_io_stats, refresh_uid_names) :
              \E upd \in {Update(s)} :
                \E order \in Orders(NonZeroNames(upd.curr)) :
                  \E fl \in {Flush(upd.curr, order)} :
                    /\ ReportBody(upd, fl)
                    /\ done' = DumpNote(hours, threshold, TRUE, f,
                                        fl.after.records)
       ELSE /\ done' = DumpNote(hours, threshold, FALSE, f, records)
            /\ UNCHANGED <<last_uid_io_stats, refresh_uid_names, curr_io_stats,
                           records, start_ts, nops>>
    /\ UNCHANGED <<charger_stat, um_lock, now, th>>

(***************************************************************************)
(* Spec: one caller, the operations that write the monitor's state         *)
(***************************************************************************)
report == Report(RawFiles, MaxSamples)

set_charger_state == \E stat \in CHARGER_STATS : SetChargerState(RawFiles, MaxSamples, stat)

init == \E stat \in CHARGER_STATS : InitMonitor(RawFiles, MaxSamples, stat)

Next == Tick \/ report \/ set_charger_state \/ init

Spec == Init /\ [][Next]_vars

(***************************************************************************)
(* SpecDump: one caller, with the query                                    *)
(***************************************************************************)
\* as many samples as fill the store
MaxDumpSamples == MAX_UID_RECORDS_SIZE

dump ==
    \E hours \in DumpHours, threshold \in Thresholds, force_report \in BOOLEAN :
        \E f \in FirstTs(now, hours) :
            Dump(DumpFiles, MaxDumpSamples, hours, threshold, force_report, f)

NextDump ==
    \/ Tick
    \/ Report(DumpFiles, MaxDumpSamples)
    \/ \E stat \in CHARGER_STATS : SetChargerState(DumpFiles, MaxDumpSamples, stat)
    \/ dump

SpecDump == Init /\ [][NextDump]_vars

(***************************************************************************)
(* SpecDelta: the clamped delta applied to counters over the whole word:   *)
(* init takes a first snapshot, set_charger_state accumulates against it   *)
(***************************************************************************)
\* one sample under each charger state
MaxDeltaSamples == Cardinality(CHARGER_STATS)

NextDelta ==
    \/ \E stat \in CHARGER_STATS : InitMonitor(DeltaFiles, MaxDeltaSamples, stat)
    \/ \E stat \in CHARGER_STATS : SetChargerState(DeltaFiles, MaxDeltaSamples, stat)

SpecDelta == Init /\ [][NextDelta]_vars

(***************************************************************************)
(* SpecConc: concurrent callers.  Each thread runs one call at a time,     *)
(* statement by statement; th[t] holds its position and locals, done the   *)
(* number of critical sections entered so far and the store as the last    *)
(* completed one left it.                                                  *)
(***************************************************************************)
Threads == {"t1", "t2"}

ConcFiles == {RawFile(RowSeq(1, 1)), RawFile(RowSeq(2, 2))}

\* calls started in a behaviour
MaxConcCalls == MaxSamples

NoRecords == [start_ts |-> 0, entries |-> <<>>]

\* a thread outside any call.  holds: it has um_lock; bare: it has read or
\* written the monitor's state without um_lock; new: new_records; snap: the
\* map init receives; flushed_at, flushed: the critical section of dump's
\* forced report and the store it left; filtered_at, boundary, ret: the
\* critical section of dump's filter, the store as the last completed
\* critical section before it left it, and dump_records
IdleThread ==
    [pc |-> "idle", op |-> "none", stat |-> CHARGER_OFF, force |-> FALSE,
     holds |-> FALSE, bare |-> FALSE, new |-> NoRecords, snap |-> EmptyMap,
     flushed_at |-> 0, flushed |-> EmptyMap,
     filtered_at |-> 0, boundary |-> EmptyMap, ret |-> EmptyMap]

ConcCalls ==
    {[op |-> "report", stat |-> CHARGER_OFF, force |-> FALSE]} \cup
    {[op |-> "dump", stat |-> CHARGER_OFF, force |-> f] : f \in BOOLEAN} \cup
    {[op |-> o, stat |-> c, force |-> FALSE] :
        o \in {"set_charger_state", "init"}, c \in CHARGER_STATS}

\* dump that skips the forced report()
DumpEntry_NoForce(force_report) == "d_lock"

\* dump starts with report() when force_report is set
DumpEntry(force_report) == IF force_report THEN "r_lock" ELSE "d_lock"

Entry(c) ==
    CASE c.op = "report" -> "r_lock"
      [] c.op = "dump" -> DumpEntry(c.force)
      [] c.op = "set_charger_state" -> "s_lock"
      [] c.op = "init" -> "i_charger"
      [] c.op = "get_uid_io_stats" -> "i_lock"

InitConc ==
    /\ last_uid_io_stats = EmptyMap
    /\ curr_io_stats = EmptyMap
    /\ records = EmptyMap
    /\ start_ts = 0
    /\ charger_stat \in CHARGER_STATS
    /\ refresh_uid_names = FALSE
    /\ um_lock = 1
    /\ now = 0
    /\ nops = 0
    /\ done = [op |-> "none", sections |-> 0, committed |-> EmptyMap]
    /\ th = [t \in Threads |-> IdleThread]

\* thread t moves to pc; a statement that touches the monitor's state
\* without um_lock is noted
Goto(t, pc) == [th EXCEPT ![t].pc = pc, ![t].bare = @ \/ ~th[t].holds]

\* a thread enters a call; init is the first call if it is made at all
Start(t) ==
    /\ th[t].pc = "idle"
    /\ nops < MaxConcCalls
    /\ \E c \in ConcCalls :
         /\ c.op = "init" => nops = 0
         /\ th' = [th EXCEPT ![t] = [IdleThread EXCEPT !.pc = Entry(c),
                       !.op = c.op, !.stat = c.stat, !.force = c.force]]
    /\ nops' = nops + 1
    /\ UNCHANGED <<monitor, um_lock, now, done>>

\* a lock that is taken without waiting
CanLock_NoWait == TRUE

\* lock_t's sem_wait returns once the semaphore is positive
CanLock == um_lock > 0

AfterLock(pc) ==
    CASE pc = "r_lock" -> "r_update"
      [] pc = "s_lock" -> "s_check"
      [] pc = "i_lock" -> "i_read"
      [] pc = "d_lock" -> "d_filter"

\* std::unique_ptr<lock_t> lock(new lock_t(&um_lock))
Lock(t) ==
    /\ th[t].pc \in {"r_lock", "s_lock", "i_lock", "d_lock"}
    /\ CanLock
    /\ um_lock' = um_lock - 1
    /\ th' = [th EXCEPT ![t].pc = AfterLock(th[t].pc), ![t].holds = TRUE]
    /\ done' = [done EXCEPT !.sections = @ + 1]
    /\ UNCHANGED <<monitor, now, nops>>

\* Unlock where report() called by dump returns without sem_post: dump
\* still holds um_lock when it constructs its own lock_t
Unlock_HeldIntoDump(t) ==
    /\ th[t].pc \in {"r_unlock", "s_unlock", "i_unlock", "d_unlock"}
    /\ um_lock' = IF th[t].pc = "r_unlock" /\ th[t].op = "dump"
                  THEN um_lock ELSE um_lock + 1
    /\ th' = [th EXCEPT ![t] =
                IF th[t].pc = "r_unlock" /\ th[t].op = "dump"
                THEN [@ EXCEPT !.pc = "d_lock",
                               !.flushed_at = done.sections,
                               !.flushed = records]
                ELSE IF th[t].pc = "i_unlock" /\ th[t].op = "init"
                THEN [@ EXCEPT !.pc = "i_assign", !.holds = FALSE]
                ELSE IdleThread]
    /\ done' = [done EXCEPT !.committed = records]
    /\ UNCHANGED <<monitor, now, nops>>

\* the lock goes out of scope: sem_post.  report() returns into dump when
\* dump called it, get_uid_io_stats() into init when init called it
Unlock(t) ==
    /\ th[t].pc \in {"r_unlock", "s_unlock", "i_unlock", "d_unlock"}
    /\ um_lock' = um_lock + 1
    /\ th' = [th EXCEPT ![t] =
                IF th[t].pc = "r_unlock" /\ th[t].op = "dump"
                THEN [@ EXCEPT !.pc = "d_lock", !.holds = FALSE,
                               !.flushed_at = done.sections,
                               !.flushed = records]
                ELSE IF th[t].pc = "i_unlock" /\ th[t].op = "init"
                THEN [@ EXCEPT !.pc = "i_assign", !.holds = FALSE]
                ELSE IdleThread]
    /\ done' = [done EXCEPT !.committed = records]
    /\ UNCHANGED <<monitor, now, nops>>

\* update_curr_io_stats_locked() in report and in set_charger_state
UpdateStep(t) ==
    /\ th[t].pc \in {"r_update", "s_update"}
    /\ \E s \in Samples(ConcFiles, last_uid_io_stats, refresh_uid_names) :
         \E upd \in {Update(s)} :
           /\ last_uid_io_stats' = upd.last
           /\ curr_io_stats' = upd.curr
           /\ refresh_uid_names' = upd.refresh
    /\ th' = Goto(t, IF th[t].pc = "r_update" THEN "r_prune" ELSE "s_set")
    /\ UNCHANGED <<records, start_ts, charger_stat, um_lock, now, nops, done>>

\* add_records_locked: the retention step
Prune(t) ==
    /\ th[t].pc = "r_prune"
    /\ records' = PruneOld(records, now)
    /\ th' = Goto(t, "r_new")
    /\ UNCHANGED <<last_uid_io_stats, curr_io_stats, start_ts, charger_stat,
                   refresh_uid_names, um_lock, now, nops, done>>

\* add_records_locked: new_records is built, the accumulator cleared,
\* start_ts advanced; the call returns if new_records is empty
Collect(t) ==
    /\ th[t].pc = "r_new"
    /\ \E order \in Orders(NonZeroNames(curr_io_stats)) :
         \E new \in {NewRecords(curr_io_stats, order, start_ts)} :
           th' = [Goto(t, IF new.entries = <<>> THEN "r_unlock" ELSE "r_room")
                      EXCEPT ![t].new = new]
    /\ curr_io_stats' = EmptyMap
    /\ start_ts' = now
    /\ UNCHANGED <<last_uid_io_stats, records, charger_stat, refresh_uid_names,
                   um_lock, now, nops, done>>

\* add_records_locked: the make-room loop
Evict(t) ==
    /\ th[t].pc = "r_room"
    /\ records' = MakeRoom(records, Overflow(records, th[t].new))
    /\ th' = Goto(t, "r_insert")
    /\ UNCHANGED <<last_uid_io_stats, curr_io_stats, start_ts, charger_stat,
                   refresh_uid_names, um_lock, now, nops, done>>

\* add_records_locked: records[curr_ts] = new_records
Insert(t) ==
    /\ th[t].pc = "r_insert"
    /\ records' = Put(records, now, th[t].new)
    /\ th' = [Goto(t, "r_unlock") EXCEPT ![t].new = NoRecords]
    /\ UNCHANGED <<last_uid_io_stats, curr_io_stats, start_ts, charger_stat,
                   refresh_uid_names, um_lock, now, nops, done>>

\* set_charger_state: if (charger_stat == stat) return
CheckCharger(t) ==
    /\ th[t].pc = "s_check"
    /\ th' = Goto(t, IF charger_stat = th[t].stat THEN "s_unlock" ELSE "s_update")
    /\ UNCHANGED <<monitor, um_lock, now, nops, done>>

\* set_charger_state: charger_stat = stat
SetCharger(t) ==
    /\ th[t].pc = "s_set"
    /\ charger_stat' = th[t].stat
    /\ th' = Goto(t, "s_unlock")
    /\ UNCHANGED <<last_uid_io_stats, curr_io_stats, records, start_ts,
                   refresh_uid_names, um_lock, now, nops, done>>

\* init: charger_stat = stat
InitCharger(t) ==
    /\ th[t].pc = "i_charger"
    /\ charger_stat' = th[t].stat
    /\ th' = Goto(t, "i_start")
    /\ UNCHANGED <<last_uid_io_stats, curr_io_stats, records, start_ts,
                   refresh_uid_names, um_lock, now, nops, done>>

\* init: start_ts = time(NULL)
InitStart(t) ==
    /\ th[t].pc = "i_start"
    /\ start_ts' = now
    /\ th' = Goto(t, "i_lock")
    /\ UNCHANGED <<last_uid_io_stats, curr_io_stats, records, charger_stat,
                   refresh_uid_names, um_lock, now, nops, done>>

\* get_uid_io_stats: get_uid_io_stats_locked() under the lock
InitRead(t) ==
    /\ th[t].pc = "i_read"
    /\ \E s \in Samples(ConcFiles, last_uid_io_stats, refresh_uid_names) :
         \E r \in {get_uid_io_stats_locked(s.raw, s.u0, s.resp,
                       last_uid_io_stats, refresh_uid_names)} :
           /\ refresh_uid_names' = r.refresh
           /\ th' = [Goto(t, "i_unlock") EXCEPT ![t].snap = r.stats]
    /\ UNCHANGED <<last_uid_io_stats, curr_io_stats, records, start_ts,
                   charger_stat, um_lock, now, nops, done>>

\* init: last_uid_io_stats = the map returned; init returns
InitAssign(t) ==
    /\ th[t].pc = "i_assign"
    /\ last_uid_io_stats' = th[t].snap
    /\ th' = [Goto(t, "i_done") EXCEPT ![t].snap = EmptyMap]
    /\ UNCHANGED <<curr_io_stats, records, start_ts, charger_stat,
                   refresh_uid_names, um_lock, now, nops, done>>

\* a thread leaves init
Return(t) ==
    /\ th[t].pc = "i_done"
    /\ th' = [th EXCEPT ![t] = IdleThread]
    /\ UNCHANGED <<monitor, um_lock, now, nops, done>>

\* dump(0, 0, force_report): the loop over the store
Filter(t) ==
    /\ th[t].pc = "d_filter"
    /\ th' = [Goto(t, "d_unlock") EXCEPT
                 ![t].ret = DumpRecords(records, 0, 0),
                 ![t].boundary = done.committed,
                 ![t].filtered_at = done.sections]
    /\ UNCHANGED <<monitor, um_lock, now, nops, done>>

NextConc ==
    \E t \in Threads :
        \/ Start(t) \/ Lock(t) \/ Unlock(t) \/ UpdateStep(t)
        \/ Prune(t) \/ Collect(t) \/ Evict(t) \/ Insert(t)
        \/ CheckCharger(t) \/ SetCharger(t)
        \/ InitCharger(t) \/ InitStart(t) \/ InitRead(t) \/ InitAssign(t)
        \/ Return(t) \/ Filter(t)

SpecConc == InitConc /\ [][NextConc]_vars

(***************************************************************************)
(* SpecLive: the concurrent callers, get_uid_io_stats among the calls,     *)
(* under a fair semaphore and a scheduler that lets every thread run       *)
(***************************************************************************)
LiveCalls ==
    ConcCalls \cup
    {[op |-> "get_uid_io_stats", stat |-> CHARGER_OFF, force |-> FALSE]}

\* calls started in a behaviour: one for every thread
MaxLiveCalls == Cardinality(Threads)

StartLive(t) ==
    /\ th[t].pc = "idle"
    /\ nops < MaxLiveCalls
    /\ \E c \in LiveCalls :
         /\ c.op = "init" => nops = 0
         /\ th' = [th EXCEPT ![t] = [IdleThread EXCEPT !.pc = Entry(c),
                       !.op = c.op, !.stat = c.stat, !.force = c.force]]
    /\ nops' = nops + 1
    /\ UNCHANGED <<monitor, um_lock, now, done>>

\* a statement of thread t inside a call that neither takes the lock nor
\* samples the stats file
Run(t) ==
    \/ Unlock(t)
    \/ Prune(t) \/ Collect(t) \/ Evict(t) \/ Insert(t)
    \/ CheckCharger(t) \/ SetCharger(t)
    \/ InitCharger(t) \/ InitStart(t) \/ InitAssign(t)
    \/ Return(t) \/ Filter(t)

NextLive ==
    \E t \in Threads :
        StartLive(t) \/ Lock(t) \/ UpdateStep(t) \/ InitRead(t) \/ Run(t)

\* the statements at which a thread samples the stats file
SamplePcs == {"r_update", "s_update", "i_read"}

\* a thread inside a call keeps running; sem_wait on a semaphore that is
\* posted again and again returns; reading the file and asking the name
\* service return.  UpdateStep(t) and InitRead(t) are enabled exactly while
\* t is at a sampling statement and a step of them leaves it, so the last
\* conjunct is WF_vars(UpdateStep(t) \/ InitRead(t)) without its ENABLED
FairLive ==
    \A t \in Threads :
        /\ WF_vars(Run(t))
        /\ SF_vars(Lock(t))
        /\ []<>(th[t].pc \notin SamplePcs)

SpecLive == InitConc /\ [][NextLive]_vars /\ FairLive

(***************************************************************************)
(* SpecParse: the row parser applied to every short row stream: init takes *)
(* the snapshot of one file                                                *)
(***************************************************************************)
NextParse == \E stat \in CHARGER_STATS : InitMonitor(ParseFiles, 1, stat)

SpecParse == Init /\ [][NextParse]_vars

(***************************************************************************)
(* SpecCount: one uid whose counter never decreases, from a successful     *)
(* init through reports and charger changes                                *)
(***************************************************************************)
MaxCountSamples == MaxSamples

NextCount ==
    \/ Tick
    \/ \E stat \in CHARGER_STATS : InitMonitor({FirstFile}, MaxCountSamples, stat)
    \/ done.op # NoCall.op /\ Report(MonotoneFiles, MaxCountSamples)
    \/ done.op # NoCall.op /\
         \E stat \in CHARGER_STATS :
             SetChargerState(MonotoneFiles, MaxCountSamples, stat)

SpecCount == Init /\ [][NextCount]_vars

(***************************************************************************)
(* Properties of the record store (Spec)                                   *)
(***************************************************************************)
Flushed == done.op = "report"

\* C1: after any sequence of flushes the records summed over all buckets of
\* the store never exceed MAX_UID_RECORDS_SIZE, whatever the size of the
\* flushed candidate buckets.
C1_TotalWithinCap == records_size(records) <= MAX_UID_RECORDS_SIZE

\* the keys of recs from k on
From(recs, k) == Restrict(recs, {j \in DOMAIN recs : j >= k})

\* C2: size-cap eviction removes whole buckets, smallest key first: the
\* buckets that survive it are a suffix in key order of those present
\* before it, each unchanged, and a bucket is evicted only while the stored
\* count plus the candidate's count does not fit the cap.
C2_EvictsOldestWholeBuckets ==
    Flushed /\ done.flush.candidate.entries # <<>> =>
        LET P == done.flush.pruned
            E == done.flush.evicted
            n == Len(done.flush.candidate.entries)
        IN  /\ DOMAIN E \subseteq DOMAIN P
            /\ \A k \in DOMAIN E : E[k] = P[k]
            /\ \A k \in DOMAIN E : \A j \in DOMAIN P : j > k => j \in DOMAIN E
            /\ \A k \in (DOMAIN P) \ (DOMAIN E) :
                   records_size(From(P, k)) + n > MAX_UID_RECORDS_SIZE
            /\ DOMAIN E = {} \/ records_size(E) + n <= MAX_UID_RECORDS_SIZE
            /\ records = Put(E, done.flush.ts, done.flush.candidate)

\* a flush evicted some buckets and kept others
C2_Witness ==
    /\ Flushed /\ done.flush.candidate.entries # <<>>
    /\ DOMAIN done.flush.evicted # {}
    /\ DOMAIN done.flush.evicted # DOMAIN done.flush.pruned

\* C3: after a report() whose flush timestamp T exceeds 432000 the store
\* holds no bucket with key < T - 432000; when T <= 432000 the retention
\* step removes no bucket.
C3_RetentionWindow ==
    Flushed =>
        LET T == done.flush.ts
        IN  /\ T > 432000 => \A k \in DOMAIN records : k >= T - 432000
            /\ T <= 432000 => done.flush.pruned = done.flush.before

\* a report at T > 432000 found a bucket older than T - 432000
C3_Witness ==
    /\ Flushed /\ done.flush.ts > 432000
    /\ \E k \in DOMAIN done.flush.before : k < done.flush.ts - 432000
    /\ \E k \in DOMAIN done.flush.before : k = done.flush.ts - 432000

AllZero(acc) == \A n \in DOMAIN acc : is_zero(acc[n].uid_ios)

\* C5: a flush whose accumulator has no entry, or only entries with an
\* all-zero uid usage, inserts no bucket: the store is what the retention
\* step left, with no key gained and no bucket changed.
C5_EmptyCandidateDropped ==
    Flushed /\ AllZero(done.flush.acc) => records = done.flush.pruned

\* a report with unchanged counters: entries in the accumulator, all zero,
\* and a store that already holds a bucket
C5_Witness ==
    /\ Flushed /\ AllZero(done.flush.acc)
    /\ DOMAIN done.flush.acc # {}
    /\ DOMAIN records # {}
    /\ done.flush.ts \notin DOMAIN records

(***************************************************************************)
(* Properties of dump (SpecDump)                                           *)
(***************************************************************************)
RECURSIVE SumCells(_, _)
SumCells(usage, cells) ==
    IF cells = {} THEN 0
    ELSE LET c == CHOOSE x \in cells : TRUE
         IN  usage[c] + SumCells(usage, cells \ {c})

\* the sum of the 8 cells of a record's uid usage
Total(rec) == SumCells(rec.ios.uid_ios, Cells)

Returned(ret, k, rec) ==
    k \in DOMAIN ret /\ \E i \in 1..Len(ret[k].entries) : ret[k].entries[i] = rec

\* C6: every record dump returns has an 8-cell sum strictly above the
\* threshold, and every stored record of the selected window (key >=
\* first_ts) with such a sum is returned.
C6_ThresholdFilter ==
    done.op = "dump" =>
        /\ \A k \in DOMAIN done.ret : \A i \in 1..Len(done.ret[k].entries) :
               Total(done.ret[k].entries[i]) > done.threshold
        /\ \A k \in DOMAIN records : \A i \in 1..Len(records[k].entries) :
               k >= done.first_ts /\ Total(records[k].entries[i]) > done.threshold
                   => Returned(done.ret, k, records[k].entries[i])

\* a dump that returned records of a bucket and dropped one of its records,
\* whose sum equals the threshold
C6_Witness ==
    /\ done.op = "dump" /\ done.threshold > 0
    /\ \E k \in DOMAIN done.ret : \E i \in 1..Len(records[k].entries) :
           /\ Total(records[k].entries[i]) = done.threshold
           /\ ~Returned(done.ret, k, records[k].entries[i])

\* C7: in every reachable state dump(0, 0, false) returns the whole store:
\* the same keys, start_ts and records in the same order.
C7_DumpAllReturnsStore ==
    /\ \A f \in FirstTs(now, 0) : DumpRecords(records, f, 0) = records
    /\ done.op = "dump" /\ done.hours = 0 /\ done.threshold = 0
           /\ ~done.force_report => done.ret = records

\* dump(0, 0, false) on a store of two buckets
C7_Witness ==
    /\ done.op = "dump" /\ done.hours = 0 /\ done.threshold = 0
    /\ ~done.force_report
    /\ done.ret = records
    /\ Cardinality(DOMAIN records) >= 2

(***************************************************************************)
(* Properties of the accumulation (SpecDelta)                              *)
(***************************************************************************)
Accumulated == done.op = "set_charger_state" /\ done.changed

\* what the claim gives as the amount added for a counter
ExactDelta(cur, prev) == IF cur < prev THEN 0 ELSE cur - prev

\* the cells of the charger state the update accumulated under
UpdatedCells == {c \in Cells : c[3] # done.stat}

\* C4: for the unsigned 64-bit cumulative counters, when the current value
\* is below the previous one the amount added to the accumulator is exactly
\* 0, and a counter with current >= previous contributes exactly current -
\* previous, for the uid and for each of its tasks.
C4_AddsExactDelta ==
    Accumulated =>
        \A u \in DOMAIN last_uid_io_stats :
            LET cur  == last_uid_io_stats[u]
                prev == Get(done.before.last, u, DefaultUidInfo)
                old  == Get(done.before.curr, cur.name, ZeroUidIoUsage)
                new  == Get(curr_io_stats, cur.name, ZeroUidIoUsage)
            IN  /\ \A c \in UpdatedCells :
                       new.uid_ios[c] - old.uid_ios[c] =
                           ExactDelta(Counter(cur.io, c), Counter(prev.io, c))
                /\ \A pid \in DOMAIN cur.tasks : \A c \in UpdatedCells :
                       LET t  == cur.tasks[pid]
                           pt == Get(prev.tasks, pid, DefaultTaskInfo)
                       IN  Get(new.task_ios, t.comm, ZeroUsage)[c]
                               - Get(old.task_ios, t.comm, ZeroUsage)[c] =
                                   ExactDelta(Counter(t.io, c), Counter(pt.io, c))

(***************************************************************************)
(* Properties of concurrent callers (SpecConc)                             *)
(***************************************************************************)
\* thread t is in dump(0, 0, true) and has run the filter
ForcedDumpFiltered(t) ==
    th[t].op = "dump" /\ th[t].force /\ th[t].pc = "d_unlock"

C9_StateOnlyUnderLock == \A t \in Threads : ~th[t].bare

\* C10: a dump concurrent with a report sees the store entirely before or
\* entirely after a flush: what it returns is the filter of the store as a
\* completed critical section left it, never of a store in mid-flush.
C10_NoTornRead ==
    \A t \in Threads :
        th[t].pc = "d_unlock" =>
            th[t].ret = DumpRecords(th[t].boundary, 0, 0)

\* a dump has filtered a store that holds a bucket while another thread's
\* report waits for the lock
C10_Witness ==
    \E t \in Threads, u \in Threads :
        /\ th[t].pc = "d_unlock" /\ th[t].ret # EmptyMap
        /\ th[u].op = "report" /\ th[u].pc = "r_lock"

(***************************************************************************)
(* Properties of set_charger_state (Spec)                                  *)
(***************************************************************************)
\* the step is a call of set_charger_state
ChargerStep == done'.op = "set_charger_state" /\ now' = now

\* C11: set_charger_state(s) while the charger state already is s reads no
\* raw statistics, computes no delta, and leaves the last snapshot, the
\* accumulator, the record store, start_ts and the charger state unchanged.
C11_SameStateIsNoOp ==
    [][ChargerStep /\ done'.stat = charger_stat =>
           /\ ~done'.changed
           /\ nops' = nops
           /\ UNCHANGED monitor]_vars

\* set_charger_state was called with the state the monitor is in, on a
\* monitor that has a snapshot, an open accumulator and a stored bucket
C11_Witness ==
    /\ done.op = "set_charger_state" /\ ~done.changed
    /\ done.stat = charger_stat
    /\ last_uid_io_stats # EmptyMap
    /\ NonZeroNames(curr_io_stats) # {}
    /\ records # EmptyMap

Changed == done.op = "set_charger_state" /\ done.changed

C16_NeverFlushes ==
    [][ChargerStep =>
           /\ records' = records
           /\ start_ts' = start_ts
           /\ \A n \in DOMAIN curr_io_stats :
                  /\ n \in DOMAIN curr_io_stats'
                  /\ \A c \in Cells :
                         curr_io_stats'[n].uid_ios[c] >= curr_io_stats[n].uid_ios[c]
                  /\ DOMAIN curr_io_stats[n].task_ios
                         \subseteq DOMAIN curr_io_stats'[n].task_ios]_vars

\* a change of state on a monitor with a stored bucket and an accumulator
\* that held usage before the call and holds it after
C16_Witness ==
    /\ Changed
    /\ records # EmptyMap
    /\ NonZeroNames(done.before.curr) # {}
    /\ NonZeroNames(done.before.curr) \subseteq NonZeroNames(curr_io_stats)

(***************************************************************************)
(* Properties of report (Spec)                                             *)
(***************************************************************************)
\* the step is a call of report
ReportStep == done'.op = "report" /\ nops' = nops + 1

\* C13: a report() whose read of the raw statistics fails, or yields no uid
\* entry, skips the cycle: the last snapshot, the accumulator, start_ts and
\* the record store are after the call exactly what they were before it.
C13_FailedReadKeepsState ==
    [][ReportStep /\ done'.sample.empty =>
           UNCHANGED <<last_uid_io_stats, curr_io_stats, start_ts, records>>]_vars

(***************************************************************************)
(* Properties of the accumulation of tasks and uids (SpecDelta)            *)
(***************************************************************************)
\* the clamped deltas of the counter of cell c, summed over the tasks pids
RECURSIVE SumTaskDeltas(_, _, _, _)
SumTaskDeltas(pids, tasks, prev_tasks, c) ==
    IF pids = {} THEN 0
    ELSE LET p == CHOOSE x \in pids : TRUE
         IN  ClampedDelta(Counter(tasks[p].io, c),
                          Counter(Get(prev_tasks, p, DefaultTaskInfo).io, c))
             + SumTaskDeltas(pids \ {p}, tasks, prev_tasks, c)

Comms(tasks) == {tasks[p].comm : p \in DOMAIN tasks}

PidsOf(tasks, comm) == {p \in DOMAIN tasks : tasks[p].comm = comm}

\* C14: task usage is aggregated by command name, not by pid: for a uid
\* whose snapshot has several pids with one command name the accumulator
\* holds one task entry for the name, to which the update adds the sum of
\* the clamped deltas of those pids, each taken against the task with the
\* same pid in the previous snapshot of the uid, or against zero.
C14_TasksSummedByName ==
    Accumulated /\ ~done.sample.empty =>
        \A u \in DOMAIN last_uid_io_stats :
            LET cur  == last_uid_io_stats[u]
                prev == Get(done.before.last, u, DefaultUidInfo)
                old  == Get(done.before.curr, cur.name, ZeroUidIoUsage)
                new  == curr_io_stats[cur.name]
            IN  /\ DOMAIN new.task_ios =
                       DOMAIN old.task_ios \cup Comms(cur.tasks)
                /\ \A comm \in Comms(cur.tasks) : \A c \in UpdatedCells :
                       new.task_ios[comm][c]
                           - Get(old.task_ios, comm, ZeroUsage)[c] =
                               SumTaskDeltas(PidsOf(cur.tasks, comm),
                                             cur.tasks, prev.tasks, c)

\* two pids of uid 1 share a command name, one of them new in this
\* snapshot, and both contribute to the entry of the name
C14_Witness ==
    /\ Accumulated /\ ~done.sample.empty
    /\ \E u \in DOMAIN last_uid_io_stats \cap DOMAIN done.before.last :
         \E p \in DOMAIN last_uid_io_stats[u].tasks,
            q \in DOMAIN last_uid_io_stats[u].tasks :
           \E c \in UpdatedCells :
             /\ p # q
             /\ last_uid_io_stats[u].tasks[p].comm =
                    last_uid_io_stats[u].tasks[q].comm
             /\ p \in DOMAIN done.before.last[u].tasks
             /\ q \notin DOMAIN done.before.last[u].tasks
             /\ SumTaskDeltas({p}, last_uid_io_stats[u].tasks,
                              done.before.last[u].tasks, c) > 0
             /\ SumTaskDeltas({q}, last_uid_io_stats[u].tasks,
                              done.before.last[u].tasks, c) > 0

\* C15: for a uid of the new snapshot and a counter with current >=
\* previous (previous being 0 for a uid absent from the last snapshot), one
\* delta computation adds exactly current - previous to the uid's cell of
\* the current charger state and changes no cell of the other state.
C15_AddsDifference ==
    Accumulated =>
        \A u \in DOMAIN last_uid_io_stats : \A c \in Cells :
            LET cur  == last_uid_io_stats[u]
                prev == Get(done.before.last, u, DefaultUidInfo)
                old  == Get(done.before.curr, cur.name, ZeroUidIoUsage)
                new  == Get(curr_io_stats, cur.name, ZeroUidIoUsage)
            IN  Counter(cur.io, c) >= Counter(prev.io, c) =>
                    new.uid_ios[c] - old.uid_ios[c] =
                        IF c \in UpdatedCells
                        THEN Counter(cur.io, c) - Counter(prev.io, c)
                        ELSE 0

(***************************************************************************)
(* Properties of the row parser (SpecParse)                                *)
(***************************************************************************)
GoodUidRow(row) == row.kind = "uid" /\ row.nparsed = 11

GoodTaskRow(row) == row.kind = "task" /\ row.ok

\* the positions before i of the uid rows that parsed
GoodBefore(rows, i) == {j \in 1..(i - 1) : GoodUidRow(rows[j])}

\* the uid of the last uid row before i that parsed
OwnerAt(rows, i) ==
    rows[CHOOSE j \in GoodBefore(rows, i) :
             \A k \in GoodBefore(rows, i) : k <= j].uid

\* no uid row after i replaces the entry of uid
KeptAfter(rows, i, uid) ==
    \A k \in (i + 1)..Len(rows) : ~(GoodUidRow(rows[k]) /\ rows[k].uid = uid)

\* C17: every task row that parses is attached to the uid of the most
\* recent uid row that parsed; a malformed uid row in between is skipped
\* and does not change the uid later task rows are attached to.
C17_TaskRowsFollowLastGoodUid ==
    done.op = "init" =>
        \A i \in 1..Len(done.rows) :
            GoodTaskRow(done.rows[i]) /\ GoodBefore(done.rows, i) # {}
              /\ KeptAfter(done.rows, i, OwnerAt(done.rows, i)) =>
                \A v \in DOMAIN last_uid_io_stats :
                    done.rows[i].pid \in DOMAIN last_uid_io_stats[v].tasks
                        <=> v = OwnerAt(done.rows, i)

(***************************************************************************)
(* Properties of name resolution (Spec)                                    *)
(***************************************************************************)
\* a step of an operation that called get_uid_io_stats_locked
SampleStep == nops' = nops + 1 /\ "sample" \in DOMAIN done'

\* the uids of the vector handed to get_uid_names by the step's sample
Requested == {done'.sample.uids[i] : i \in 1..Len(done'.sample.uids)}

\* C18 as stated: a lookup is issued during a sample only if the sample has
\* a uid that is absent from the last snapshot, whatever happened in
\* earlier samples.
C18_LookupOnlyForNewUid ==
    [][SampleStep /\ done'.sample.lookup =>
          \E u \in Requested : u \notin DOMAIN last_uid_io_stats]_vars

\* C18 amended: a lookup is issued during a sample only if a uid row of the
\* sample parsed and either the sample has a uid that is absent from the
\* last snapshot, or refresh_uid_names is still set from an earlier sample
\* whose lookup did not succeed.
C18_LookupForNewUidOrPending ==
    [][SampleStep /\ done'.sample.lookup =>
          /\ Requested # {}
          /\ \/ \E u \in Requested : u \notin DOMAIN last_uid_io_stats
             \/ refresh_uid_names]_vars

\* set_charger_state issued a lookup for a sample whose uids were all in
\* the last snapshot
C18_Witness ==
    /\ Changed
    /\ done.sample.lookup
    /\ \A i \in 1..Len(done.sample.uids) :
           done.sample.uids[i] \in DOMAIN done.before.last

\* the name of uid u in the last snapshot came from the name service
Learned(u) ==
    /\ u \in DOMAIN last_uid_io_stats
    /\ last_uid_io_stats[u].name \notin {"", to_string(u)}

\* C19: a uid whose name was learned from a successful resolution is never
\* in a later resolution request, and its cached name is not overwritten
\* while it stays in the last snapshot.
C19_NamedUidNeverResolvedAgain ==
    [][SampleStep =>
          \A u \in DOMAIN last_uid_io_stats :
              Learned(u) =>
                  /\ ~(done'.sample.lookup /\ u \in Requested)
                  /\ u \in DOMAIN last_uid_io_stats' =>
                         last_uid_io_stats'[u].name = last_uid_io_stats[u].name]_vars

(***************************************************************************)
(* Properties of stored buckets (SpecDump)                                 *)
(***************************************************************************)
\* C20: a stored bucket never changes: across report, dump and
\* set_charger_state, a key that stays in the store keeps its start_ts and
\* its record list.
C20_StoredBucketImmutable ==
    [][\A k \in DOMAIN records \cap DOMAIN records' :
           records'[k] = records[k]]_vars

(***************************************************************************)
(* Properties of the interval start (Spec)                                 *)
(***************************************************************************)
InitStep == done'.op = "init" /\ nops' = nops + 1

\* C21: every flush, whether or not it stores a bucket, empties the
\* accumulator and sets start_ts to the flush timestamp; init sets start_ts
\* to its own time and nothing else changes it; the bucket a flush stores
\* carries the start_ts of before the flush: the time of the preceding
\* flush, stored or discarded, or of init.
C21_BucketStartsAtPrecedingFlush ==
    [][/\ ReportStep =>
            /\ curr_io_stats' = EmptyMap
            /\ start_ts' = now
            /\ done'.flush.candidate.entries # <<>> =>
                   /\ now \in DOMAIN records'
                   /\ records'[now].start_ts = start_ts
       /\ InitStep => start_ts' = now
       /\ ~ReportStep /\ ~InitStep => start_ts' = start_ts]_vars

\* a flush stored a bucket that starts at the time of an earlier flush
\* whose candidate was discarded
C21_Witness ==
    /\ done.op = "report"
    /\ done.flush.candidate.entries # <<>>
    /\ done.flush.before # EmptyMap
    /\ done.flush.candidate.start_ts \notin DOMAIN done.flush.before
    /\ records[done.flush.ts].start_ts = done.flush.candidate.start_ts

(***************************************************************************)
(* Properties of stored records (SpecCount)                                *)
(***************************************************************************)
\* C22: in every state every stored bucket has at least one record, every
\* stored record has a non-zero uid usage, and every task entry of a stored
\* record is non-zero.
C22_StoredRecordsNonZero ==
    \A k \in DOMAIN records :
        /\ records[k].entries # <<>>
        /\ \A i \in 1..Len(records[k].entries) :
               /\ ~is_zero(records[k].entries[i].ios.uid_ios)
               /\ \A c \in DOMAIN records[k].entries[i].ios.task_ios :
                      ~is_zero(records[k].entries[i].ios.task_ios[c])

\* a flush of an accumulator with an all-zero entry and with a non-zero
\* entry that holds an all-zero task: the bucket it stored has the second
\* without the task
C22_Witness ==
    /\ Flushed
    /\ done.flush.ts \in DOMAIN records
    /\ \E z \in DOMAIN done.flush.acc : is_zero(done.flush.acc[z].uid_ios)
    /\ \E n \in DOMAIN done.flush.acc :
           /\ ~is_zero(done.flush.acc[n].uid_ios)
           /\ \E c \in DOMAIN done.flush.acc[n].task_ios :
                  /\ is_zero(done.flush.acc[n].task_ios[c])
                  /\ \E i \in 1..Len(records[done.flush.ts].entries) :
                         /\ records[done.flush.ts].entries[i].name = n
                         /\ c \notin DOMAIN records[done.flush.ts].entries[i].ios.task_ios

(***************************************************************************)
(* Properties of the accumulator's keys (Spec)                             *)
(***************************************************************************)
\* the uids a display name can stand for: the decimal uid that is the
\* default name, or the name the name service gives
UidsNamed(n) == {u \in 0..NumUids : n \in {to_string(u), PkgName(u)}}

\* C23: the accumulator keeps one entry per uid within an interval, so a
\* stored bucket has at most one record per uid, also when the uid's name
\* is resolved partway through the interval.
C23_OneRecordPerUid ==
    \A k \in DOMAIN records :
        \A i, j \in 1..Len(records[k].entries) :
            i # j => UidsNamed(records[k].entries[i].name)
                       \cap UidsNamed(records[k].entries[j].name) = {}

(***************************************************************************)
(* Conservation of usage (SpecCount)                                       *)
(***************************************************************************)
\* the cells of the counter of SpecCount: foreground reads, either charger
\* state
CountCells == {c \in Cells : c[1] = READ /\ c[2] = FOREGROUND}

\* the counter's usage in the records i.. of entries that are of uid 1
RECURSIVE SumEntries(_, _)
SumEntries(entries, i) ==
    IF i > Len(entries) THEN 0
    ELSE (IF 1 \in UidsNamed(entries[i].name)
          THEN SumCells(entries[i].ios.uid_ios, CountCells) ELSE 0)
         + SumEntries(entries, i + 1)

\* the counter's usage in the buckets keys of the store
RECURSIVE SumBuckets(_, _)
SumBuckets(recs, keys) ==
    IF keys = {} THEN 0
    ELSE LET k == CHOOSE x \in keys : TRUE
         IN  SumEntries(recs[k].entries, 1) + SumBuckets(recs, keys \ {k})

\* the counter's usage in the accumulator entries names that are of uid 1
RECURSIVE SumAccumulator(_, _)
SumAccumulator(curr, names) ==
    IF names = {} THEN 0
    ELSE LET n == CHOOSE x \in names : TRUE
         IN  (IF 1 \in UidsNamed(n)
              THEN SumCells(curr[n].uid_ios, CountCells) ELSE 0)
             + SumAccumulator(curr, names \ {n})

\* no bucket was pruned, evicted or overwritten since init.  The store is
\* empty before the first flush, so with at most two calls after init only
\* the last call can have removed a bucket, and done tells whether it did
NoBucketLost ==
    /\ nops <= 3
    /\ done.op = "set_charger_state" => done.changed
    /\ done.op = "report" =>
           /\ done.flush.evicted = done.flush.before
           /\ done.flush.ts \notin DOMAIN done.flush.before

\* C24: for a uid that is in every successful sample since a successful
\* init and a counter that never decreases, as long as no bucket was
\* pruned, evicted or overwritten, the counter's usage over all stored
\* records of the uid plus its accumulator entries, both charger states
\* together, is the counter's value in the last snapshot minus its value in
\* the snapshot init took.
C24_UsageConserved ==
    done.op # NoCall.op /\ NoBucketLost =>
        SumBuckets(records, DOMAIN records)
          + SumAccumulator(curr_io_stats, DOMAIN curr_io_stats)
            = CountIn(last_uid_io_stats)
                - FirstFile.rows[1].io[FOREGROUND].read_bytes

(***************************************************************************)
(* Termination and the lock (SpecLive)                                     *)
(***************************************************************************)
InCall(t) == th[t].pc # IdleThread.pc

\* C25: under any interleaving of callers of init, report, dump,
\* set_charger_state and get_uid_io_stats with a fair semaphore, every call
\* returns; no thread takes um_lock while it holds it; um_lock is free
\* whenever no call is in progress.
C25_EveryCallReturns ==
    /\ \A t \in Threads : InCall(t) ~> ~InCall(t)
    /\ [][\A t \in Threads : th'[t].holds /\ um_lock' < um_lock => ~th[t].holds]_vars
    /\ []((\A t \in Threads : ~InCall(t)) => um_lock = 1)

\* dump's forced report has returned and released the lock, dump has taken
\* it again for its filter, while the other thread waits for it
C25_Witness ==
    \E t, o \in Threads :
        /\ th[t].op = "dump" /\ th[t].force /\ th[t].pc = "d_filter"
        /\ th[t].holds /\ um_lock = 0
        /\ th[o].pc \in {"r_lock", "s_lock", "i_lock", "d_lock"}

(***************************************************************************)
(* dump as a query (SpecDump)                                              *)
(***************************************************************************)
\* a step of dump with force_report = false
QueryStep == done'.op = "dump" /\ ~done'.force_report /\ now' = now

\* C26: dump(hours, threshold, false) is a pure query: for all hours and
\* threshold it leaves the record store, the accumulator and its start
\* time, the last snapshot and the charger state unchanged, and it takes no
\* sample of the stats file.
C26_DumpWithoutForceIsQuery ==
    [][QueryStep =>
          /\ UNCHANGED <<records, curr_io_stats, start_ts, last_uid_io_stats,
                         charger_stat, refresh_uid_names>>
          /\ nops' = nops]_vars

\* dump(120, 2, false) returned while the store, the accumulator and the
\* last snapshot all hold something
C26_Witness ==
    /\ done.op = "dump" /\ ~done.force_report
    /\ done.hours # 0 /\ done.threshold # 0
    /\ records # EmptyMap
    /\ NonZeroNames(curr_io_stats) # {}
    /\ last_uid_io_stats # EmptyMap

====
